---- MODULE Spec2Model ----
(***************************************************************************)
(* The runtime reflection registry of src/entt/meta/factory.hpp: a context *)
(* mapping type keys to type nodes, the shared type descriptors, and the   *)
(* meta_factory sessions that populate them.                               *)
(*                                                                         *)
(* Type keys, external ids, data/function ids and the bucket of a factory  *)
(* are all values of the one type id_type, so they are drawn from one      *)
(* domain of naturals here.  A shared_ptr<meta_type_descriptor> is a       *)
(* handle into `heap`; a descriptor lives as long as a type node or a      *)
(* factory refers to it.  An overload chain (meta_func_node linked by      *)
(* `next`) is the sequence of its nodes, head first.                       *)
(***************************************************************************)
EXTENDS Integers, Sequences, FiniteSets, TLC

VARIABLES
    ctx,        \* meta_context::value : type key -> meta_type_node
    heap,       \* handle -> meta_type_descriptor (the shared_ptr targets)
    factory,    \* session slot -> basic_meta_factory members
    failure,    \* the ENTT_ASSERT that ended the program, or "none"
    registered, \* history: handle -> function id -> candidates passed to func, in call order
    last        \* history: the call most recently made

vars == <<ctx, heap, factory, failure, registered, last>>

(* ------------------------------ bounds -------------------------------- *)

\* number of distinct callables (Candidate, Policy) that func is called with
NCand == 2
\* func calls made under one id of one descriptor
MaxRegs == 3
\* largest id_type value used as an external id
MaxId == 2
\* setters in the value_list of a multi-setter data member
MaxSetters == 3

(* ------------------------------ domains ------------------------------- *)

\* type_id<Type>().hash() of the reflected types; the type with key 2 derives
\* from the type with key 1
Types == {1, 2}
IsBaseOf(b, t) == b = 1 /\ t = 2
Ids == 0..MaxId
\* the factory objects alive at the same time
Sessions == {1, 2}
Candidates == 1..NCand
\* the null shared_ptr
Null == 0
\* id of a value-initialised meta_type_node
DefaultId == 0
\* the empty meta_dtor_node
NoDtor == 0

EmptyMap == <<>>

(* --------------------------- dense_map helpers ------------------------ *)

\* try_emplace: the element already under k stays
try_emplace(m, k, v) ==
    [x \in (DOMAIN m) \cup {k} |-> IF x \in DOMAIN m THEN m[x] ELSE v]

\* insert_or_assign: v takes the place of the element under k
insert_or_assign(m, k, v) ==
    [x \in (DOMAIN m) \cup {k} |-> IF x = k THEN v ELSE m[x]]

\* operator[]: the element under k, default-inserted when missing
subscript(m, k, dflt) ==
    IF k \in DOMAIN m THEN m ELSE insert_or_assign(m, k, dflt)

erase(m, k) == [x \in (DOMAIN m) \ {k} |-> m[x]]

(* ------------------------------- nodes -------------------------------- *)

\* a value-initialised meta_type_node, as value[parent] inserts it
default_type_node == [id |-> DefaultId, dtor |-> NoDtor, details |-> Null]

\* internal::resolve<Type>(context) for a type the context does not hold yet
resolve_type(t) == [id |-> t, dtor |-> NoDtor, details |-> Null]

\* std::make_shared<meta_type_descriptor>()
empty_descriptor ==
    [base |-> EmptyMap, conv |-> EmptyMap, ctor |-> EmptyMap,
     data |-> EmptyMap, func |-> EmptyMap, prop |-> EmptyMap]

\* the node func<Candidate, Policy> builds: everything but prop is fixed by
\* the template arguments, invoke is &meta_invoke<Type, Candidate, Policy>
meta_func_node(c) ==
    [traits |-> IF c % 2 = 0 THEN {"const"} ELSE {},
     arity |-> c - 1,
     invoke |-> c,
     prop |-> EmptyMap]

\* the nodes the data<...> overloads build; kind 1 is a member object
\* (data<Data>), kind 2 a read-only getter (data<nullptr, Getter>)
meta_data_node(kind) ==
    [traits |-> IF kind = 2 THEN {"const"} ELSE {},
     arity |-> IF kind = 2 THEN 0 ELSE 1,
     get |-> kind,
     prop |-> EmptyMap]

\* meta_setter<Type, Candidate>(instance, value): a setter, named by the type
\* of its argument, takes the value when the value is of that type
meta_setter(candidate, value) == candidate = value

\* the fold trying every setter, those after the one that took the value too
RECURSIVE meta_setters_eager(_, _, _)
meta_setters_eager(setters, value, i) ==
    IF i > Len(setters) THEN [tried |-> <<>>, ok |-> FALSE]
    ELSE LET rest == meta_setters_eager(setters, value, i + 1)
         IN  [tried |-> <<i>> \o rest.tried,
              ok |-> meta_setter(setters[i], value) \/ rest.ok]

\* the set function of a multi-setter data member, the fold
\* (meta_setter<Type, Setter_i>(instance, value) || ...) from setter i on:
\* the setters it calls, in call order, and what it returns
RECURSIVE meta_setters(_, _, _)
meta_setters(setters, value, i) ==
    IF i > Len(setters) THEN [tried |-> <<>>, ok |-> FALSE]
    ELSE IF meta_setter(setters[i], value) THEN [tried |-> <<i>>, ok |-> TRUE]
    ELSE LET rest == meta_setters(setters, value, i + 1)
         IN  [tried |-> <<i>> \o rest.tried, ok |-> rest.ok]

\* the node data<value_list<Setter...>, Getter> builds: set holds the setters
\* in the order of the value_list
meta_data_node_setters(setters) ==
    [traits |-> {},
     arity |-> Len(setters),
     get |-> 1,
     set |-> setters,
     prop |-> EmptyMap]

\* value 0 stands for a property without value (resolve<void>)
meta_prop_node(v) == [value |-> v]

(* ------------------------------ factory ------------------------------- *)

no_factory == [parent |-> 0, details |-> Null, bucket |-> 0, is_data |-> FALSE]

IsOpen(s) == factory[s].details # Null

Min(S) == CHOOSE x \in S : \A y \in S : x <= y

\* the handle make_shared returns: one no live descriptor has
fresh(h) == Min({x \in 1..(Cardinality(DOMAIN h) + 1) : x \notin DOMAIN h})

\* the descriptors still owned by a type node or a factory
live(c, f) ==
    ({c[t].details : t \in DOMAIN c} \cup {f[s].details : s \in DOMAIN f}) \ {Null}

release(h, c, f) == [x \in (DOMAIN h) \cap live(c, f) |-> h[x]]

(* ----------------------- basic_meta_factory --------------------------- *)

\* resolve(ctx, id): whether some type node of the context carries id
resolve(c, id) == \E t \in DOMAIN c : c[t].id = id

\* track_assert with the assertion compiled out
track_assert_off(c, parent, id) == TRUE

\* track_assert without the exemption of the type's own id
track_assert_any_owner(c, parent, id) == ~resolve(c, id)

\* the condition track asserts, on the context in which value[parent] exists
track_assert(c, parent, id) == c[parent].id = id \/ ~resolve(c, id)

\* track, past its assertion
track(c, parent, id) == [c EXCEPT ![parent].id = id]

extend_base(d, id, node) == [d EXCEPT !.base = insert_or_assign(@, id, node)]

\* a conversion function registered with try_emplace: the first one stays
extend_conv_emplace(d, id, node) ==
    [d EXCEPT !.conv = IF id \in DOMAIN @ THEN @ ELSE insert_or_assign(@, id, node)]

\* extend(id, meta_conv_node), but for the selection
extend_conv(d, id, node) == [d EXCEPT !.conv = insert_or_assign(@, id, node)]

extend_ctor(d, id, node) == [d EXCEPT !.ctor = insert_or_assign(@, id, node)]

extend_dtor(c, parent, node) ==
    [subscript(c, parent, default_type_node) EXCEPT ![parent].dtor = node]

\* a data node taking the place of another and keeping its properties
extend_data_keep_prop(d, id, node) ==
    [d EXCEPT !.data = insert_or_assign(@, id,
        IF id \in DOMAIN d.data THEN [node EXCEPT !.prop = d.data[id].prop]
        ELSE node)]

\* extend(id, meta_data_node), but for the selection
extend_data(d, id, node) == [d EXCEPT !.data = insert_or_assign(@, id, node)]

\* the walk of extend(id, meta_func_node): the position of the first node from
\* position i on whose invoke is inv, 0 when the walk reaches the end
RECURSIVE find_invoke(_, _, _)
find_invoke(chain, inv, i) ==
    IF i > Len(chain) THEN 0
    ELSE IF chain[i].invoke = inv THEN i
    ELSE find_invoke(chain, inv, i + 1)

\* extend_func moving a re-registered node to the head of the chain
extend_func_to_front(d, id, node) ==
    IF id \in DOMAIN d.func
    THEN LET chain == d.func[id]
             rest == SelectSeq(chain, LAMBDA n : n.invoke # node.invoke)
         IN  [d EXCEPT !.func[id] = <<node>> \o rest]
    ELSE [d EXCEPT !.func = insert_or_assign(@, id, <<node>>)]

\* extend_func linking a new overload behind the last node of the chain
extend_func_append(d, id, node) ==
    IF id \in DOMAIN d.func
    THEN LET chain == d.func[id]
             at == find_invoke(chain, node.invoke, 1)
         IN  IF at # 0
             THEN [d EXCEPT !.func[id][at] = node]
             ELSE [d EXCEPT !.func[id] = Append(chain, node)]
    ELSE [d EXCEPT !.func = insert_or_assign(@, id, <<node>>)]

\* extend_func comparing the head of the chain only
extend_func_head_only(d, id, node) ==
    IF id \in DOMAIN d.func
    THEN LET chain == d.func[id]
         IN  IF chain[1].invoke = node.invoke
             THEN [d EXCEPT !.func[id][1] = node]
             ELSE [d EXCEPT !.func[id] = <<node>> \o chain]
    ELSE [d EXCEPT !.func = insert_or_assign(@, id, <<node>>)]

\* extend_func linking every node in front of the chain, without looking
\* for a node with the same invoke
extend_func_always_prepend(d, id, node) ==
    IF id \in DOMAIN d.func
    THEN [d EXCEPT !.func[id] = <<node>> \o d.func[id]]
    ELSE [d EXCEPT !.func = insert_or_assign(@, id, <<node>>)]

\* extend(id, meta_func_node), but for the selection
extend_func(d, id, node) ==
    IF id \in DOMAIN d.func
    THEN LET chain == d.func[id]
             at == find_invoke(chain, node.invoke, 1)
         IN  IF at # 0
             \* node.next = curr->next; *curr = node
             THEN [d EXCEPT !.func[id][at] = node]
             \* node.next = the previous head; node is the new head
             ELSE [d EXCEPT !.func[id] = <<node>> \o chain]
    ELSE [d EXCEPT !.func = insert_or_assign(@, id, <<node>>)]

\* seek_assert accepting an entry of either map
seek_assert_either(d, id, data) == id \in DOMAIN d.data \/ id \in DOMAIN d.func

\* seek_assert with the assertion compiled out
seek_assert_off(d, id, data) == TRUE

\* the condition seek asserts
seek_assert(d, id, data) ==
    \/ data /\ id \in DOMAIN d.data
    \/ ~data /\ id \in DOMAIN d.func

\* value-initialised nodes, as data[bucket] and func[bucket] insert them
default_data_node == [traits |-> {}, arity |-> 0, get |-> 0, prop |-> EmptyMap]
default_func_node == [traits |-> {}, arity |-> 0, invoke |-> 0, prop |-> EmptyMap]

\* a property assigned to the type whatever is selected
property_of_type(d, f, key, value) ==
    [d EXCEPT !.prop = insert_or_assign(@, key, value)]

\* basic_meta_factory::property
property(d, f, key, value) ==
    IF f.bucket = f.parent
    THEN [d EXCEPT !.prop = insert_or_assign(@, key, value)]
    ELSE IF f.is_data
    THEN LET m == subscript(d.data, f.bucket, default_data_node)
         IN  [d EXCEPT !.data =
                 [m EXCEPT ![f.bucket].prop = insert_or_assign(@, key, value)]]
    ELSE LET m == subscript(d.func, f.bucket, <<default_func_node>>)
         IN  [d EXCEPT !.func =
                 [m EXCEPT ![f.bucket][1].prop = insert_or_assign(@, key, value)]]

(* ------------------------------ resets -------------------------------- *)

\* reset by id erasing the node under the key equal to the id
reset_id_by_key(c, id) == erase(c, id)

\* meta_reset(ctx, id): erases every node whose id is id
reset_id(c, id) == [t \in {u \in DOMAIN c : c[u].id # id} |-> c[t]]

\* reset_type erasing by external id
reset_type_by_id(c, t) == reset_id(c, t)

\* meta_reset<Type>(ctx): erases the node under the type's key
reset_type(c, t) == erase(c, t)

\* a reset of the context that erases nothing
reset_all_none(c) == c

\* meta_reset(ctx): clear()
reset_all(c) == EmptyMap

(* ------------------------------ actions ------------------------------- *)

\* the history keeps the operation and the factory that made the call; the
\* arguments are read back from the state the call leaves
Call(op, s, a, b) == [op |-> op, s |-> s]

\* the state a call leaves: descriptors no longer owned are released
Step(c, h, f, r, fl, call) ==
    /\ ctx' = c
    /\ factory' = f
    /\ heap' = release(h, c, f)
    /\ registered' = release(r, c, f)
    /\ failure' = fl
    /\ last' = call

Running == failure = "none"

\* the constructor of basic_meta_factory, run on context c for slot s
basic_meta_factory(c, s, t, call) ==
    LET c1 == subscript(c, t, default_type_node)
        make == c1[t].details = Null
        h == IF make THEN fresh(heap) ELSE c1[t].details
        c2 == [c1 EXCEPT ![t].details = h]
        h2 == IF make THEN insert_or_assign(heap, h, empty_descriptor) ELSE heap
        r2 == IF make THEN insert_or_assign(registered, h, EmptyMap) ELSE registered
        f2 == [factory EXCEPT ![s] =
                  [parent |-> t, details |-> h, bucket |-> t, is_data |-> FALSE]]
    IN  Step(c2, h2, f2, r2, "none", call)

\* meta<Type>(ctx)
meta(s, t) ==
    /\ Running
    /\ basic_meta_factory(subscript(ctx, t, resolve_type(t)), s, t,
                          Call("meta", s, t, 0))

\* meta_factory<Type>{ctx}
meta_factory(s, t) ==
    /\ Running
    /\ basic_meta_factory(ctx, s, t, Call("meta_factory", s, t, 0))

\* meta_factory::type(id)
type(s, id) ==
    /\ Running /\ IsOpen(s)
    /\ LET f == factory[s]
           c1 == subscript(ctx, f.parent, default_type_node)
           call == Call("type", s, id, 0)
       IN  IF track_assert(c1, f.parent, id)
           THEN Step(track(c1, f.parent, id), heap,
                     [factory EXCEPT ![s].bucket = f.parent],
                     registered, "none", call)
           ELSE Step(c1, heap, factory, registered, "duplicate_identifier", call)

\* the calls that change the descriptor of a factory and its selection
Extend(s, d, bucket, is_data, r, call) ==
    Step(ctx, [heap EXCEPT ![factory[s].details] = d],
         [factory EXCEPT ![s].bucket = bucket, ![s].is_data = is_data],
         r, "none", call)

\* meta_factory::base<Base>()
base(s, b) ==
    /\ Running /\ IsOpen(s)
    /\ IsBaseOf(b, factory[s].parent)
    /\ LET f == factory[s]
       IN  Extend(s, extend_base(heap[f.details], b, [type |-> b]),
                  f.parent, f.is_data, registered, Call("base", s, b, 0))

\* meta_factory::conv<Candidate>() and conv<To>(): op tells the candidates
\* that convert to the same type apart
conv(s, to, op) ==
    /\ Running /\ IsOpen(s)
    /\ LET f == factory[s]
       IN  Extend(s, extend_conv(heap[f.details], to, [conv |-> op]),
                  f.parent, f.is_data, registered, Call("conv", s, to, op))

\* ctor<Args...>() storing an entry for the empty argument list too
ctor_unguarded(s, args) ==
    /\ Running /\ IsOpen(s)
    /\ LET f == factory[s]
       IN  Extend(s, extend_ctor(heap[f.details], args,
                                 [arity |-> Len(args), ctor |-> 0]),
                  f.parent, f.is_data, registered, Call("ctor", s, args, 0))

\* meta_factory::ctor<Args...>(): args is the list of argument types
ctor(s, args) ==
    /\ Running /\ IsOpen(s)
    /\ LET f == factory[s]
           call == Call("ctor", s, args, 0)
       IN  IF Len(args) # 0
           THEN Extend(s, extend_ctor(heap[f.details], args,
                                      [arity |-> Len(args), ctor |-> 0]),
                       f.parent, f.is_data, registered, call)
           ELSE Step(ctx, heap, factory, registered, "none", call)

\* meta_factory::ctor<Candidate, Policy>(): args is the argument list of the
\* candidate function
ctor_candidate(s, args, cand) ==
    /\ Running /\ IsOpen(s)
    /\ LET f == factory[s]
       IN  Extend(s, extend_ctor(heap[f.details], args,
                                 [arity |-> Len(args), ctor |-> cand]),
                  f.parent, f.is_data, registered,
                  Call("ctor_candidate", s, args, cand))

\* meta_factory::dtor<Func>()
dtor(s, op) ==
    /\ Running /\ IsOpen(s)
    /\ LET f == factory[s]
       IN  Step(extend_dtor(ctx, f.parent, op), heap,
                [factory EXCEPT ![s].bucket = f.parent],
                registered, "none", Call("dtor", s, op, 0))

\* meta_factory::data<...>(id)
data(s, id, kind) ==
    /\ Running /\ IsOpen(s)
    /\ LET f == factory[s]
       IN  Extend(s, extend_data(heap[f.details], id, meta_data_node(kind)),
                  id, TRUE, registered, Call("data", s, id, kind))

\* meta_factory::data<value_list<Setter...>, Getter, Policy>(id)
data_setters(s, id, setters) ==
    /\ Running /\ IsOpen(s)
    /\ LET f == factory[s]
       IN  Extend(s, extend_data(heap[f.details], id,
                                 meta_data_node_setters(setters)),
                  id, TRUE, registered, Call("data_setters", s, id, setters))

\* a call of the set function of the multi-setter data member id of type t
\* with a value of the given type; the history keeps what the call did
data_set(t, id, value) ==
    /\ Running
    /\ t \in DOMAIN ctx /\ ctx[t].details # Null
    /\ id \in DOMAIN heap[ctx[t].details].data
    /\ LET node == heap[ctx[t].details].data[id]
       IN  /\ "set" \in DOMAIN node
           /\ LET r == meta_setters(node.set, value, 1)
              IN  Step(ctx, heap, factory, registered, "none",
                       [op |-> "data_set", s |-> 0, id |-> id, value |-> value,
                        tried |-> r.tried, ok |-> r.ok])

\* meta_factory::func<Candidate, Policy>(id)
func(s, id, c) ==
    /\ Running /\ IsOpen(s)
    /\ LET f == factory[s]
           r == registered[f.details]
           regs == IF id \in DOMAIN r THEN r[id] ELSE <<>>
       IN  /\ Len(regs) < MaxRegs
           /\ Extend(s, extend_func(heap[f.details], id, meta_func_node(c)),
                     id, FALSE,
                     [registered EXCEPT ![f.details] =
                         insert_or_assign(@, id, Append(regs, c))],
                     Call("func", s, id, c))

\* seek, called by data(id) and func(id)
seek(s, id, is_data, call) ==
    IF seek_assert(heap[factory[s].details], id, is_data)
    THEN Step(ctx, heap,
              [factory EXCEPT ![s].bucket = id, ![s].is_data = is_data],
              registered, "none", call)
    ELSE Step(ctx, heap, factory, registered, "invalid_identifier", call)

\* meta_factory::data(id)
data_seek(s, id) ==
    /\ Running /\ IsOpen(s)
    /\ seek(s, id, TRUE, Call("data_seek", s, id, 0))

\* meta_factory::func(id)
func_seek(s, id) ==
    /\ Running /\ IsOpen(s)
    /\ seek(s, id, FALSE, Call("func_seek", s, id, 0))

\* meta_factory::prop(id, value...)
prop(s, key, value) ==
    /\ Running /\ IsOpen(s)
    /\ LET f == factory[s]
       IN  Step(ctx,
                [heap EXCEPT ![f.details] =
                    property(@, f, key, meta_prop_node(value))],
                factory, registered, "none", Call("prop", s, key, value))

\* meta_reset(ctx, id)
meta_reset_id(id) ==
    /\ Running
    /\ Step(reset_id(ctx, id), heap, factory, registered, "none",
            Call("meta_reset_id", 0, id, 0))

\* meta_reset<Type>(ctx)
meta_reset_type(t) ==
    /\ Running
    /\ Step(reset_type(ctx, t), heap, factory, registered, "none",
            Call("meta_reset_type", 0, t, 0))

\* meta_reset(ctx)
meta_reset_all ==
    /\ Running
    /\ Step(reset_all(ctx), heap, factory, registered, "none",
            Call("meta_reset_all", 0, 0, 0))

(* --------------------------- specifications --------------------------- *)

Init ==
    /\ ctx = EmptyMap
    /\ heap = EmptyMap
    /\ factory = [s \in Sessions |-> no_factory]
    /\ failure = "none"
    /\ registered = EmptyMap
    /\ last = Call("none", 0, 0, 0)

\* ids the member specification registers data and functions under: the key
\* of the reflected type itself and another value
MemberIds == {1, MaxId}
FuncIds == {MaxId}
PropKeys == {MaxId}
PropValues == {0, 1}

\* one factory of the type with key 1 registering data, functions and
\* properties
NextMembers ==
    \/ meta(1, 1)
    \/ \E id \in MemberIds, kind \in {1} : data(1, id, kind)
    \/ \E id \in FuncIds, c \in Candidates : func(1, id, c)
    \/ \E id \in MemberIds : data_seek(1, id)
    \/ \E id \in MemberIds : func_seek(1, id)
    \/ \E key \in PropKeys, value \in PropValues : prop(1, key, value)

SpecMembers == Init /\ [][NextMembers]_vars

\* factories opened by meta<Type>(ctx) on every type: identifiers, bases and
\* resets
NextTypes ==
    \/ \E s \in Sessions, t \in Types : meta(s, t)
    \/ \E s \in Sessions, id \in Ids : type(s, id)
    \/ \E s \in Sessions, b \in Types : base(s, b)
    \/ \E id \in Ids : meta_reset_id(id)
    \/ \E t \in Types : meta_reset_type(t)
    \/ meta_reset_all

SpecTypes == Init /\ [][NextTypes]_vars

ArgLists == {<<>>, <<1>>, <<1, 2>>}

\* one factory of the type with key 2 registering its id, bases, conversions,
\* constructors and destructor, between a data member and properties
NextUpserts ==
    \/ meta(1, 2)
    \/ type(1, MaxId)
    \/ base(1, 1)
    \/ \E op \in 1..2 : conv(1, 1, op)
    \/ \E args \in ArgLists : ctor(1, args)
    \/ \E args \in ArgLists : ctor_candidate(1, args, 1)
    \/ \E op \in 1..2 : dtor(1, op)
    \/ data(1, 1, 1)
    \/ prop(1, MaxId, 0)

SpecUpserts == Init /\ [][NextUpserts]_vars

\* the value_lists of setters a multi-setter data member is registered with
SetterLists == UNION {[1..n -> Types] : n \in 0..MaxSetters}

\* one factory of the type with key 1 registering a multi-setter data member
\* and its properties, and the calls of the set function of the member
NextSetters ==
    \/ meta(1, 1)
    \/ \E setters \in SetterLists : data_setters(1, MaxId, setters)
    \/ \E value \in Ids : data_set(1, MaxId, value)
    \/ \E value \in PropValues : prop(1, MaxId, value)

SpecSetters == Init /\ [][NextSetters]_vars

\* one factory of the type with key 1 registering data members of two kinds
\* again and again, with properties in between
NextData ==
    \/ meta(1, 1)
    \/ \E id \in MemberIds, kind \in 1..2 : data(1, id, kind)
    \/ \E id \in MemberIds : data_seek(1, id)
    \/ \E value \in PropValues : prop(1, MaxId, value)

SpecData == Init /\ [][NextData]_vars

\* one factory of the type with key 1 assigning properties under two keys to
\* the type, a data member and the overloads of a function
NextProps ==
    \/ meta(1, 1)
    \/ data(1, MaxId, 1)
    \/ \E c \in {1, NCand} : func(1, MaxId, c)
    \/ prop(1, 1, 0)
    \/ \E value \in PropValues : prop(1, MaxId, value)

SpecProps == Init /\ [][NextProps]_vars

\* two factories of the type with key 1, alive together, registering a data
\* member and a conversion function under the same id and target
NextShared ==
    \/ \E s \in Sessions : meta(s, 1)
    \/ \E s \in Sessions, kind \in 1..2 : data(s, MaxId, kind)
    \/ \E s \in Sessions, op \in 1..2 : conv(s, 2, op)

SpecShared == Init /\ [][NextShared]_vars

\* two factories of the type with key 1, alive together, registering and
\* selecting a data member and a function under one id and assigning
\* properties
NextSelect ==
    \/ \E s \in Sessions : meta(s, 1)
    \/ \E s \in Sessions : data(s, MaxId, 1)
    \/ \E s \in Sessions : func(s, MaxId, NCand)
    \/ \E s \in Sessions : data_seek(s, MaxId)
    \/ \E s \in Sessions : func_seek(s, MaxId)
    \/ \E s \in Sessions : conv(s, 2, 1)
    \/ \E s \in Sessions : prop(s, MaxId, 0)

SpecSelect == Init /\ [][NextSelect]_vars

Next ==
    \/ NextMembers
    \/ NextTypes
    \/ \E s \in Sessions, t \in Types : meta_factory(s, t)
    \/ \E s \in Sessions, op \in 1..2 : dtor(s, op)
    \/ \E s \in Sessions, to \in Types, op \in 1..2 : conv(s, to, op)
    \/ \E s \in Sessions, args \in ArgLists : ctor(s, args)
    \/ \E s \in Sessions, args \in ArgLists, cand \in 1..2 : ctor_candidate(s, args, cand)
    \/ \E s \in Sessions, id \in Ids, setters \in SetterLists : data_setters(s, id, setters)
    \/ \E t \in Types, id \in Ids, value \in Ids : data_set(t, id, value)

Spec == Init /\ [][Next]_vars

(* ------------------------- overload chains ---------------------------- *)

Desc(s) == heap[factory[s].details]

Invokes(chain) == [i \in 1..Len(chain) |-> chain[i].invoke]

\* the chains built by the registration sequence regs, as <<handle, id>> pairs
ChainsRegistered(regs) ==
    {p \in (DOMAIN heap) \X Ids :
        p[2] \in DOMAIN registered[p[1]] /\ registered[p[1]][p[2]] = regs}

\* C1 as stated: after func(f, A), func(f, B), func(f, A) on a type without
\* entry under f, the chain under f is [A, B] from the head.
C1_Original ==
    \A a \in Candidates, b \in Candidates : a # b =>
        \A p \in ChainsRegistered(<<a, b, a>>) :
            Invokes(heap[p[1]].func[p[2]]) = <<a, b>>

\* C1, amended: after func(f, A), func(f, B), func(f, A) on a type without
\* entry under f, the chain under f has exactly two nodes, [B, A] from the
\* head: A keeps the slot behind B and is not duplicated.
C1_Amended ==
    \A a \in Candidates, b \in Candidates : a # b =>
        \A p \in ChainsRegistered(<<a, b, a>>) :
            Invokes(heap[p[1]].func[p[2]]) = <<b, a>>

C1_Witness ==
    /\ last.op = "func"
    /\ \E p \in ChainsRegistered(<<1, 2, 1>>) : Len(heap[p[1]].func[p[2]]) = 2

\* the step of C2: a func call whose invoke matches no node of the chain
\* under id puts its node in front of the chain, which follows unchanged
C2_Step ==
    \A s \in Sessions, id \in Ids, c \in Candidates :
        (/\ func(s, id, c)
         /\ id \in DOMAIN Desc(s).func
         /\ \A i \in 1..Len(Desc(s).func[id]) : Desc(s).func[id][i].invoke # c)
        => heap'[factory[s].details].func[id]
               = <<meta_func_node(c)>> \o Desc(s).func[id]

\* C2: a new overload becomes the head of the chain and the previous chain
\* follows it, every node unchanged and in the same order; registering A
\* then B under one id yields [B, A].
C2_NewOverloadOrdering ==
    /\ [][C2_Step]_vars
    /\ [](\A a \in Candidates, b \in Candidates : a # b =>
            \A p \in ChainsRegistered(<<a, b>>) :
                Invokes(heap[p[1]].func[p[2]]) = <<b, a>>)

C2_Witness ==
    /\ last.op = "func"
    /\ \E p \in ChainsRegistered(<<1, 2>>) :
           /\ Invokes(heap[p[1]].func[p[2]]) = <<2, 1>>
           /\ heap[p[1]].func[p[2]][2].prop # EmptyMap

\* the step of C3: a func call whose invoke matches the node at position i
\* keeps the length of the chain, puts its node at position i and leaves
\* every other node as it was
C3_Step ==
    \A s \in Sessions, id \in Ids, c \in Candidates :
        (func(s, id, c) /\ id \in DOMAIN Desc(s).func) =>
            LET old == Desc(s).func[id]
                new == heap'[factory[s].details].func[id]
            IN  \A i \in 1..Len(old) :
                    old[i].invoke = c =>
                        /\ Len(new) = Len(old)
                        /\ new[i] = meta_func_node(c)
                        /\ \A j \in 1..Len(old) : j # i => new[j] = old[j]

\* C3: registering a callable that the chain under id already holds updates
\* that node in place: same length, same position, the other nodes untouched.
C3_InPlaceUpdate == [][C3_Step]_vars

C3_Witness ==
    /\ last.op = "func"
    /\ \E p \in ChainsRegistered(<<2, 1, 2>>) :
           Invokes(heap[p[1]].func[p[2]]) = <<1, 2>>

(* ------------------------- property routing --------------------------- *)

\* a prop call made right after a data call of the same factory
C4_Step ==
    \A s \in Sessions, k \in Ids, v \in 0..1 :
        (last.op = "data" /\ last.s = s /\ prop(s, k, v)) =>
            LET id == factory[s].bucket
                new == heap'[factory[s].details]
            IN  /\ k \in DOMAIN new.data[id].prop
                /\ new.data[id].prop[k] = meta_prop_node(v)
                /\ new.prop = Desc(s).prop

\* C4 as stated: data(id, entry) followed at once by prop(k, v) stores k in
\* the property map of data entry id and leaves the type-level map alone.
C4_Original == [][C4_Step]_vars

\* a prop call made right after a func call of the same factory; the
\* candidate of that call is the last one registered under the bucket
C5_Step ==
    \A s \in Sessions, k \in Ids, v \in 0..1 :
        (last.op = "func" /\ last.s = s /\ prop(s, k, v)) =>
            LET id == factory[s].bucket
                regs == registered[factory[s].details][id]
                c == regs[Len(regs)]
                old == Desc(s).func[id]
                new == heap'[factory[s].details].func[id]
            IN  /\ Len(new) = Len(old)
                /\ \A i \in 1..Len(old) :
                       IF old[i].invoke = c
                       THEN /\ k \in DOMAIN new[i].prop
                            /\ new[i].prop[k] = meta_prop_node(v)
                       ELSE new[i].prop = old[i].prop

\* C5 as stated: func(id, entry) followed at once by prop(k, v) stores k in
\* the node of the chain that carries entry's invoke, and changes the
\* property map of no other node.
C5_Original == [][C5_Step]_vars

(* ------------------------------ selection ----------------------------- *)

\* what a seek call that finds its entry leaves: the selection moved, the
\* context and every descriptor as before
Selected(s, id, is_data) ==
    /\ failure' = "none"
    /\ factory' = [factory EXCEPT ![s].bucket = id, ![s].is_data = is_data]
    /\ heap' = heap
    /\ ctx' = ctx

\* the step of C8, for both seek calls
C8_Step ==
    \A s \in Sessions, id \in Ids :
        /\ data_seek(s, id) =>
               IF id \in DOMAIN Desc(s).data
               THEN Selected(s, id, TRUE)
               ELSE failure' = "invalid_identifier"
        /\ func_seek(s, id) =>
               IF id \in DOMAIN Desc(s).func
               THEN Selected(s, id, FALSE)
               ELSE failure' = "invalid_identifier"

\* C8: data(id) (func(id)) ends in the invalid-identifier condition exactly
\* when the data (functions) map of the type has no entry under id, whatever
\* the other map holds; otherwise it selects the entry and changes no map.
C8_SelectionById == [][C8_Step]_vars

C8_Witness ==
    /\ failure = "invalid_identifier"
    /\ last.op = "data_seek"
    /\ Desc(last.s).func # EmptyMap
    /\ \E id \in DOMAIN Desc(last.s).func : id \notin DOMAIN Desc(last.s).data

(* ------------------------------ identifiers --------------------------- *)

\* C6 as stated: no two type nodes of the context carry the same id.
C6_Original ==
    \A t \in DOMAIN ctx, u \in DOMAIN ctx : t # u => ctx[t].id # ctx[u].id

\* the step of C7; the record of the type is the one value[parent] yields
C7_Step ==
    \A s \in Sessions, id \in Ids :
        type(s, id) =>
            LET t == factory[s].parent
                elem == subscript(ctx, t, default_type_node)[t]
                conflict ==
                    /\ elem.id # id
                    /\ \E u \in (DOMAIN ctx) \ {t} : ctx[u].id = id
            IN  IF conflict
                THEN /\ failure' = "duplicate_identifier"
                     /\ \A u \in DOMAIN ctx : ctx'[u].id = ctx[u].id
                ELSE /\ failure' = "none"
                     /\ ctx'[t].id = id

\* C7: type(id) on a factory of type T ends in the duplicate-identifier
\* condition exactly when T's node has another id and the node of another
\* type carries id, and then no id changes; otherwise T's node carries id.
C7_DuplicateIdRejection == [][C7_Step]_vars

C7_Witness ==
    /\ failure = "duplicate_identifier"
    /\ last.op = "type"
    /\ Cardinality(DOMAIN ctx) = 2

\* the step of C9: type(id) made again right after it succeeded
C9_Step ==
    \A s \in Sessions, id \in Ids :
        (/\ last.op = "type" /\ last.s = s
         /\ factory[s].parent \in DOMAIN ctx
         /\ ctx[factory[s].parent].id = id
         /\ type(s, id))
        => UNCHANGED <<ctx, heap, factory, failure>>

\* C9: type(id) made again after it succeeded leaves the context, the
\* descriptors and the selection of the factory as the first call left them.
C9_IdempotentTypeBinding == [][C9_Step]_vars

C9_Witness ==
    /\ last.op = "type"
    /\ failure = "none"
    /\ LET t == factory[last.s].parent
       IN  /\ ctx[t].id \notin {t, DefaultId}
           /\ Cardinality(DOMAIN ctx) = 2

(* -------------------------------- resets ------------------------------ *)

\* the step of C10
C10_Step ==
    \A t \in Types :
        meta_reset_type(t) =>
            /\ DOMAIN ctx' = (DOMAIN ctx) \ {t}
            /\ \A u \in (DOMAIN ctx) \ {t} :
                   /\ ctx'[u] = ctx[u]
                   /\ ctx[u].details # Null =>
                          heap'[ctx[u].details] = heap[ctx[u].details]

\* C10: meta_reset<T> removes the node under T's key, whatever its id, and
\* leaves the node and the descriptor of every other type as they were, a
\* base entry that refers to T included.
C10_ResetTypeScoping == [][C10_Step]_vars

C10_Witness ==
    /\ last.op = "meta_reset_type"
    /\ DOMAIN ctx = {2}
    /\ ctx[2].details # Null
    /\ 1 \in DOMAIN heap[ctx[2].details].base

\* the step of C11
C11_Step ==
    \A id \in Ids :
        meta_reset_id(id) =>
            /\ DOMAIN ctx' = {t \in DOMAIN ctx : ctx[t].id # id}
            /\ \A u \in DOMAIN ctx' :
                   /\ ctx'[u] = ctx[u]
                   /\ ctx[u].details # Null =>
                          heap'[ctx[u].details] = heap[ctx[u].details]

\* C11: meta_reset(ctx, id) removes exactly the nodes whose id is id, all of
\* them when several carry it and none when none does, and leaves every other
\* node and its descriptor as they were; a node under the key id whose id was
\* overridden stays.
C11_ResetById == [][C11_Step]_vars

\* a reset by id has left the node under key 1, whose id was overridden, and
\* no node of the other type a factory is open on
C11_Witness ==
    /\ last.op = "meta_reset_id"
    /\ DOMAIN ctx = {1}
    /\ ctx[1].id = MaxId
    /\ IsOpen(2) /\ factory[2].parent = 2

\* the step of C12
C12_Step ==
    /\ meta_reset_all => ctx' = EmptyMap
    /\ \A s \in Sessions, t \in Types :
           (last.op = "meta_reset_all" /\ meta(s, t)) =>
               /\ DOMAIN ctx' = {t}
               /\ ctx'[t].id = t
               /\ ctx'[t].dtor = NoDtor
               /\ ctx'[t].details # Null
               /\ heap'[ctx'[t].details] = empty_descriptor
               /\ factory'[s].details = ctx'[t].details

\* C12: meta_reset(ctx) leaves the context without nodes, and the meta<T>
\* that follows it makes a node whose id is T's key, without destructor and
\* with an empty descriptor, whatever was registered for T before.
C12_ResetAllThenEnsure == [][C12_Step]_vars

\* a type that had a base registered was reset with the whole context and
\* bound again: the factory of before still holds the base, the node does not
C12_Witness ==
    /\ last.op = "meta"
    /\ factory[1].parent = 2 /\ factory[2].parent = 2
    /\ IsOpen(1) /\ IsOpen(2)
    /\ DOMAIN ctx = {2}
    /\ heap[factory[1].details].base # EmptyMap
    /\ heap[ctx[2].details] = empty_descriptor

(* ------------------------- shared descriptors ------------------------- *)

\* C13 as stated: any two factories open on the same type hold one and the
\* same descriptor, and it is the one the node of the type in the context
\* holds, whatever factories were opened, whatever they registered and
\* whatever was reset.
C13_Original ==
    \A s1 \in Sessions, s2 \in Sessions :
        (s1 # s2 /\ IsOpen(s1) /\ IsOpen(s2)
            /\ factory[s1].parent = factory[s2].parent) =>
            /\ factory[s1].details = factory[s2].details
            /\ factory[s1].parent \in DOMAIN ctx =>
                   ctx[factory[s1].parent].details = factory[s1].details

(* ---------------------------- constructors ---------------------------- *)

\* C14 as stated: no ctor map ever holds an entry of arity 0, whether the
\* constructors were registered with ctor<Args...> or with ctor<Candidate>.
C14_Original ==
    \A h \in DOMAIN heap :
        \A k \in DOMAIN heap[h].ctor : heap[h].ctor[k].arity # 0

\* C14 amended: ctor<Args...> stores no entry of arity 0; an entry of arity 0
\* is one that ctor<Candidate> stored for a candidate without arguments.
C14_Amended ==
    \A h \in DOMAIN heap :
        \A k \in DOMAIN heap[h].ctor :
            /\ heap[h].ctor[k].arity = Len(k)
            /\ heap[h].ctor[k].arity = 0 => heap[h].ctor[k].ctor # 0

\* ctor<>() was called with the empty argument list, the one ctor call that
\* leaves a data member selected, and the entry of arity 0 is the candidate's
C14_Witness ==
    /\ last.op = "ctor"
    /\ IsOpen(1)
    /\ factory[1].bucket # factory[1].parent
    /\ <<>> \in DOMAIN Desc(1).ctor
    /\ Desc(1).ctor[<<>>] = [arity |-> 0, ctor |-> 1]

(* ------------------------------ setters ------------------------------- *)

\* the setters of a list that take a value
Takers(setters, value) ==
    {i \in 1..Len(setters) : meta_setter(setters[i], value)}

\* the step of C15
C15_Step ==
    /\ \A s \in Sessions, id \in Ids, setters \in SetterLists :
           (last'.op = "data_setters" /\ data_setters(s, id, setters)) =>
               /\ DOMAIN Desc(s).data' = DOMAIN Desc(s).data \cup {id}
               /\ Desc(s).data'[id].arity = Len(setters)
               /\ Desc(s).data'[id].set = setters
               /\ \A other \in DOMAIN Desc(s).data \ {id} :
                      Desc(s).data'[other] = Desc(s).data[other]
    /\ \A t \in Types, id \in Ids, value \in Ids :
           (last'.op = "data_set" /\ data_set(t, id, value)) =>
               LET setters == heap[ctx[t].details].data[id].set
                   takers == Takers(setters, value)
                   stop == IF takers = {} THEN Len(setters) ELSE Min(takers)
               IN  /\ last'.tried = [i \in 1..stop |-> i]
                   /\ last'.ok = (takers # {})

C16_Step ==
    \A s \in Sessions, id \in Ids, kind \in 1..2 :
        (last'.op = "data" /\ IsOpen(s) /\ id \in DOMAIN Desc(s).data
            /\ data(s, id, kind)) =>
            /\ DOMAIN Desc(s).data' = DOMAIN Desc(s).data
            /\ Desc(s).data'[id] = meta_data_node(kind)
            /\ Desc(s).data'[id].prop = EmptyMap
            /\ \A other \in DOMAIN Desc(s).data \ {id} :
                   Desc(s).data'[other] = Desc(s).data[other]

\* C16: data(id) called for an id that has a data node keeps the ids of the
\* data map as they are and makes the node under id the new one, without
\* properties: traits, arity, setter, getter and properties of the old node
\* are gone; the other data nodes stay as they were.
C16_DataReplacement == [][C16_Step]_vars

\* a data member that had a property was registered again as a read-only one
\* while the other data member kept its node
C16_Witness ==
    /\ last.op = "data"
    /\ IsOpen(1)
    /\ DOMAIN Desc(1).data = MemberIds
    /\ Desc(1).data[MaxId] = meta_data_node(2)
    /\ Desc(1).data[1] = meta_data_node(1)
    /\ factory[1].bucket = MaxId

(* --------------------- bases, conversions, constructors --------------- *)

\* map new is map old with value v under key k and nothing else changed
Upsert(new, old, k, v) ==
    /\ DOMAIN new = DOMAIN old \cup {k}
    /\ new[k] = v
    /\ \A o \in DOMAIN old \ {k} : new[o] = old[o]

\* the step of C17
C17_Step ==
    \A s \in Sessions :
        /\ \A b \in Types :
               (last'.op = "base" /\ base(s, b)) =>
                   /\ Upsert(Desc(s).base', Desc(s).base, b, [type |-> b])
                   /\ Desc(s).conv' = Desc(s).conv
                   /\ Desc(s).ctor' = Desc(s).ctor
        /\ \A to \in Types, op \in 1..2 :
               (last'.op = "conv" /\ conv(s, to, op)) =>
                   /\ Upsert(Desc(s).conv', Desc(s).conv, to, [conv |-> op])
                   /\ Desc(s).base' = Desc(s).base
                   /\ Desc(s).ctor' = Desc(s).ctor
        /\ \A args \in ArgLists :
               (last'.op = "ctor" /\ ctor(s, args)) =>
                   /\ IF args = <<>> THEN Desc(s).ctor' = Desc(s).ctor
                      ELSE Upsert(Desc(s).ctor', Desc(s).ctor, args,
                                  [arity |-> Len(args), ctor |-> 0])
                   /\ Desc(s).base' = Desc(s).base
                   /\ Desc(s).conv' = Desc(s).conv
        /\ \A args \in ArgLists, cand \in 1..2 :
               (last'.op = "ctor_candidate" /\ ctor_candidate(s, args, cand)) =>
                   /\ Upsert(Desc(s).ctor', Desc(s).ctor, args,
                             [arity |-> Len(args), ctor |-> cand])
                   /\ Desc(s).base' = Desc(s).base
                   /\ Desc(s).conv' = Desc(s).conv
        /\ \A op \in 1..2 :
               (last'.op = "dtor" /\ dtor(s, op)) =>
                   /\ ctx'[factory[s].parent].dtor = op
                   /\ Desc(s)' = Desc(s)

PropMaps(d) ==
    [where \in {<<"type">>}
        \cup {<<"data", id>> : id \in DOMAIN d.data}
        \cup UNION {{<<"func", id, i>> : i \in 1..Len(d.func[id])} :
                       id \in DOMAIN d.func} |->
        IF where[1] = "type" THEN d.prop
        ELSE IF where[1] = "data" THEN d.data[where[2]].prop
        ELSE d.func[where[2]][where[3]].prop]

\* the descriptor without its properties
NoProps(d) ==
    [d EXCEPT !.prop = EmptyMap,
              !.data = [id \in DOMAIN @ |-> [@[id] EXCEPT !.prop = EmptyMap]],
              !.func = [id \in DOMAIN @ |->
                           [i \in 1..Len(@[id]) |-> [@[id][i] EXCEPT !.prop = EmptyMap]]]]

\* the map prop writes: the one of the type when bucket is the type, else
\* the one of the data node or of the function node under bucket
Target(f) ==
    IF f.bucket = f.parent THEN <<"type">>
    ELSE IF f.is_data THEN <<"data", f.bucket>>
    ELSE <<"func", f.bucket, 1>>

\* the step of C18
C18_Step ==
    \A s \in Sessions, key \in Ids, value \in PropValues :
        (last'.op = "prop" /\ prop(s, key, value)) =>
            LET old == PropMaps(Desc(s))
                new == PropMaps(Desc(s)')
                target == Target(factory[s])
            IN  /\ DOMAIN new = DOMAIN old
                /\ target \in DOMAIN old
                /\ Upsert(new[target], old[target], key, meta_prop_node(value))
                /\ \A where \in DOMAIN old \ {target} : new[where] = old[where]
                /\ NoProps(Desc(s)') = NoProps(Desc(s))
                /\ ctx' = ctx /\ factory' = factory

\* C18: prop(key, value) puts value under key in one property map, the one
\* of the type when bucket is the key of the type and else the one of the
\* data node (is_data) or of the function node under bucket, over the value
\* the key had; every other property map, every other key of that map and
\* everything that is not a property stay as they were.
C18_PropertyTargeting == [][C18_Step]_vars

\* the head of a chain of two overloads got a second key and a new value
\* under the first, while the other overload, the data member and the type
\* hold properties of their own
C18_Witness ==
    /\ last.op = "prop"
    /\ IsOpen(1)
    /\ factory[1].bucket = MaxId /\ ~factory[1].is_data
    /\ MaxId \in DOMAIN Desc(1).func
    /\ Len(Desc(1).func[MaxId]) = 2
    /\ Desc(1).func[MaxId][1].prop =
           (1 :> meta_prop_node(0)) @@ (MaxId :> meta_prop_node(1))
    /\ DOMAIN Desc(1).func[MaxId][2].prop = {MaxId}
    /\ Desc(1).func[MaxId][2].prop[MaxId] = meta_prop_node(0)
    /\ MaxId \in DOMAIN Desc(1).data
    /\ DOMAIN Desc(1).data[MaxId].prop = {1}
    /\ DOMAIN Desc(1).prop = {1, MaxId}

(* ------------------------------ selection ----------------------------- *)

\* C19 as stated: every call of type, base, conv, ctor and dtor, whatever its
\* arguments, the argument list of a constructor included, leaves bucket at
\* the key of the type, so that the prop that follows writes the map of the
\* type.
C19_Original ==
    (failure = "none"
        /\ last.op \in {"type", "base", "conv", "ctor", "ctor_candidate", "dtor"}) =>
        factory[last.s].bucket = factory[last.s].parent

(* ----------------------- two factories, one slot ---------------------- *)

\* factory s registers over what the other factory of the same descriptor
\* registered in the call before
After(s, op) ==
    /\ last.op = op
    /\ last.s \in Sessions \ {s}
    /\ IsOpen(s)
    /\ factory[last.s].details = factory[s].details

\* the step of C20 as stated
C20_OriginalStep ==
    \A s \in Sessions :
        /\ \A id \in Ids, kind \in 1..2 :
               (After(s, "data") /\ factory[last.s].bucket = id
                   /\ data(s, id, kind)) =>
                   Desc(s).data'[id] = Desc(s).data[id]
        /\ \A to \in Types, op \in 1..2 :
               (After(s, "conv") /\ DOMAIN Desc(s).conv = {to}
                   /\ conv(s, to, op)) =>
                   Desc(s).conv'[to] = Desc(s).conv[to]

\* C20 as stated: when two factories of a type register under the same key
\* of the same map, the one that registers first wins the slot: once both
\* have run, the map holds the entry of the first.
C20_Original == [][C20_OriginalStep]_vars

\* the step of C20 amended
C20_AmendedStep ==
    \A s \in Sessions :
        /\ \A id \in Ids, kind \in 1..2 :
               (After(s, "data") /\ factory[last.s].bucket = id
                   /\ data(s, id, kind)) =>
                   /\ Desc(s).data'[id] = meta_data_node(kind)
                   /\ heap'[factory[last.s].details] = Desc(s)'
        /\ \A to \in Types, op \in 1..2 :
               (After(s, "conv") /\ DOMAIN Desc(s).conv = {to}
                   /\ conv(s, to, op)) =>
                   /\ Desc(s).conv'[to] = [conv |-> op]
                   /\ heap'[factory[last.s].details] = Desc(s)'

\* C20 amended: when two factories of a type register under the same key of
\* the same map, the one that registers last holds the slot: once both have
\* run, the map holds the entry of the second, through either factory.
C20_Amended == [][C20_AmendedStep]_vars

\* factory 2 registered the data member as a read-only one after factory 1
\* had registered and selected it, and the shared descriptor holds the
\* read-only node
C20_Witness ==
    /\ last.op = "data" /\ last.s = 2
    /\ IsOpen(1) /\ IsOpen(2)
    /\ factory[1].details = factory[2].details
    /\ factory[1].bucket = MaxId /\ factory[1].is_data
    /\ Desc(1).data[MaxId] = meta_data_node(2)

(* ------------------------- nodes of the context ----------------------- *)

\* the calls of a factory that follow its construction
FactoryCalls ==
    {"type", "base", "conv", "ctor", "ctor_candidate", "dtor", "data",
     "data_setters", "func", "data_seek", "func_seek", "prop"}

\* the step of C21 as stated: a call of a factory that does not end the
\* program leaves the keys of the context as they were
C21_OriginalStep ==
    (last'.op \in FactoryCalls /\ failure' = "none") =>
        DOMAIN ctx' = DOMAIN ctx

\* C21 as stated: only meta<Type> adds a node to the context and only the
\* resets remove one; none of type, base, conv, ctor, dtor, data, func,
\* data(id), func(id) and prop changes the keys the context holds, a call on
\* a factory built before a reset erased its type included.
C21_Original == [][C21_OriginalStep]_vars

(* ------------------------- validity of selection ---------------------- *)

\* what factory s has selected is in the map is_data names
ValidSelection(s) ==
    LET f == factory[s]
    IN  f.bucket # f.parent =>
            IF f.is_data THEN f.bucket \in DOMAIN Desc(s).data
            ELSE f.bucket \in DOMAIN Desc(s).func

\* the step of C22: prop adds no data node and no function node
C22_Step ==
    \A s \in Sessions, key \in Ids, value \in PropValues :
        (last'.op = "prop" /\ prop(s, key, value)) =>
            /\ DOMAIN Desc(s).data' = DOMAIN Desc(s).data
            /\ DOMAIN Desc(s).func' = DOMAIN Desc(s).func
            /\ \A id \in DOMAIN Desc(s).func :
                   Len(Desc(s).func'[id]) = Len(Desc(s).func[id])

\* C22: as long as no assertion has failed, whatever a factory has selected
\* other than its type is the id of a node of its descriptor, of a data node
\* when is_data is set and of a function else, whatever the other factories
\* of the type did in between; so prop never makes a data or function node.
C22_SelectionValidity ==
    /\ [](Running => \A s \in Sessions : IsOpen(s) => ValidSelection(s))
    /\ [][C22_Step]_vars

\* one factory has the data member selected and the other the function of
\* the same id; both assigned a property, and each went to its own node
C22_Witness ==
    /\ last.op = "prop" /\ last.s = 2
    /\ IsOpen(1) /\ IsOpen(2)
    /\ factory[1].details = factory[2].details
    /\ factory[1].bucket = MaxId /\ factory[1].is_data
    /\ factory[2].bucket = MaxId /\ ~factory[2].is_data
    /\ Desc(1).data[MaxId].prop # EmptyMap
    /\ Desc(2).func[MaxId][1].prop # EmptyMap
    /\ Desc(1).prop = EmptyMap

(* ----------------------- well-formedness of chains -------------------- *)

\* the invoke functions func was called with under id of descriptor h
InvokesRegistered(h, id) ==
    {meta_func_node(registered[h][id][k]).invoke :
        k \in 1..Len(registered[h][id])}

\* C23: every chain of every functions map has at least one node and no two
\* nodes with the same invoke, and as many nodes as distinct invoke functions
\* were registered under its id since the descriptor was made: one node for
\* each of them. A chain is a finite list of nodes, each owned by the node
\* before it.
C23_ChainWellFormed ==
    \A h \in DOMAIN heap :
        /\ DOMAIN heap[h].func = DOMAIN registered[h]
        /\ \A id \in DOMAIN heap[h].func :
               LET chain == heap[h].func[id]
               IN  /\ Len(chain) >= 1
                   /\ \A i \in 1..Len(chain), j \in 1..Len(chain) :
                          chain[i].invoke = chain[j].invoke => i = j
                   /\ Len(chain) = Cardinality(InvokesRegistered(h, id))
                   /\ {chain[i].invoke : i \in 1..Len(chain)}
                          = InvokesRegistered(h, id)

\* more func calls were made under an id than its chain has nodes, and the
\* chain has a node for every callable
C23_Witness ==
    /\ last.op = "func"
    /\ \E h \in DOMAIN heap : \E id \in DOMAIN heap[h].func :
           /\ Len(heap[h].func[id]) = NCand
           /\ Len(registered[h][id]) > NCand

====
